---- MODULE Spec2Model ----
(***************************************************************************)
(* Job queue of the EPSON PP-100 disc burner application.                  *)
(*                                                                         *)
(* The model follows app/job_queue.py (JobQueue, BurnJob),                 *)
(* app/background_worker.py (the scheduler loop) and app/main.py           *)
(* (loading of persisted jobs at startup).  The methods of JobQueue that   *)
(* hold the queue lock are one action each; the scheduler loop, the        *)
(* download worker and the burn loop hold no lock and are split at their   *)
(* blocking calls (download, control-file generation, marker-file read,    *)
(* sleep), which is where another thread can run.                          *)
(*                                                                         *)
(* An operation's return value, its notifications, its reports to the     *)
(* remote API and its request to abort a download are fields of the       *)
(* record the operator of the same name computes; the action that calls   *)
(* it installs the job table and the dispatch list of that record.        *)
(*                                                                         *)
(* Time is counted in minutes.                                             *)
(***************************************************************************)
EXTENDS Integers, Sequences, FiniteSets, TLC

\* ---- bounds of the model ----
MaxJobs == 2
MaxThreads == 2
MaxWeeks == 1
MaxQueue == 3
MaxCallbacks == 3
MaxIsos == 2
MaxItems == 2
MaxLoops == 3

\* ---- program constants ----
max_concurrent_jobs == 1
burner_timeout == 10
DayMinutes == 24 * 60
cleanup_max_age_days == 7
max_retries == 2
MiB == 1024  \* file sizes are counted in KiB

NULL == "null"

JobStatus ==
  { "pending", "downloading", "downloaded", "generating_jdf", "jdf_ready",
    "queued_for_burning", "burning", "verifying", "completed", "failed",
    "cancelled" }

in_progress_statuses == { "downloading", "burning", "verifying" }

JobIds == 1..MaxJobs

VARIABLES
  jobs,       \* JobQueue.jobs: job id -> BurnJob
  job_keys,   \* insertion order of the keys of JobQueue.jobs
  job_queue,  \* JobQueue.job_queue: the dispatch list
  next_id,    \* number of ids handed out so far
  threads,    \* download workers and burn loops
  sched,      \* position of the scheduler loop
  main_pc,    \* position of the main thread
  now,        \* wall clock
  job_update_callbacks, \* JobQueue.job_update_callbacks: the subscribers
  delivered,  \* what the latest notification did
  markers,    \* files of each job's stem in the burner's folder
  iso_ids,    \* iso_info["id"] of the jobs made from remote items
  polls,      \* the threads inside check_for_new_isos
  running,    \* BackgroundWorker.running
  worker_loops, \* the threads BackgroundWorker.start created
  tick,       \* the periodic tasks that raised in the tick's run_pending
  retrying,   \* the job retry_job is resetting, 0 when none
  lock,       \* the thread inside a critical section of the queue's lock
  schedule_jobs \* the periodic tasks registered with the schedule module

\* state the job queue's own steps never write
outside == << job_update_callbacks, markers, iso_ids, polls, running, worker_loops,
             tick, retrying,
                  lock, schedule_jobs >>

vars == << jobs, job_keys, job_queue, next_id, threads, sched, main_pc, now,
           delivered, outside >>

\* ---- helpers on sequences ----
RECURSIVE SeqRemoveFirst(_, _)
SeqRemoveFirst(s, x) ==
  IF s = << >> THEN << >>
  ELSE IF Head(s) = x THEN Tail(s)
  ELSE << Head(s) >> \o SeqRemoveFirst(Tail(s), x)

InSeq(s, x) == \E i \in 1..Len(s) : s[i] = x

\* ---- BurnJob ----
NewBurnJob(t) ==
  [ status |-> "pending", updated_at |-> t, error_message |-> NULL,
    progress |-> 0, iso_path |-> NULL, jdf_path |-> NULL,
    retry_count |-> 0, notification_sent |-> FALSE ]

\* an update_status that writes a message only when it is given one
update_status_keep_message(job, status, error_message, t) ==
  IF job.status = status THEN job
  ELSE [ job EXCEPT !.status = status, !.updated_at = t,
                    !.error_message = IF error_message = NULL THEN @
                                      ELSE error_message,
                    !.notification_sent = FALSE ]

update_status(job, status, error_message, t) ==
  IF job.status = status THEN job
  ELSE [ job EXCEPT !.status = status, !.updated_at = t,
                    !.error_message = error_message,
                    !.notification_sent = FALSE ]

\* ---- BurnJob.increment_retry, which no code calls ----
increment_retry(job, t) ==
  [ job EXCEPT !.retry_count = @ + 1, !.updated_at = t ]

\* the report update_status sends to the remote API
\* a report sent for every final status, CANCELLED included
update_status_to_api_terminal(job, status, with_queue) ==
  IF job.status # status /\ with_queue
     /\ status \in { "completed", "failed", "cancelled" }
  THEN << status >> ELSE << >>

\* ---- BurnJob.update_status_to_api as update_status calls it: the reports
\* sent to the API when the job is given the status ----
update_status_to_api(job, status, with_queue) ==
  IF job.status # status /\ with_queue /\ status \in { "completed", "failed" }
  THEN << status >> ELSE << >>

FreeThread == [ kind |-> "free", job |-> 0, pc |-> "none", max_time |-> 0 ]

\* ---- JobQueue._notify_job_update ----
\* A subscriber is "ok" or "raise", by what its callback does when called.
\* received: the subscribers called, in order; escaped: whether an exception
\* left _notify_job_update.
\* the loop ending at the first subscriber that raises
RECURSIVE notify_from_stop(_, _, _)
notify_from_stop(callbacks, i, received) ==
  IF i > Len(callbacks) THEN [ received |-> received, escaped |-> FALSE ]
  ELSE IF callbacks[i] = "raise"
    THEN [ received |-> Append(received, i), escaped |-> TRUE ]
    ELSE notify_from_stop(callbacks, i + 1, Append(received, i))

RECURSIVE notify_from(_, _, _)
notify_from(callbacks, i, received) ==
  IF i > Len(callbacks) THEN [ received |-> received, escaped |-> FALSE ]
  ELSE IF callbacks[i] = "raise"
    THEN \* except Exception: logged, the loop goes on
         notify_from(callbacks, i + 1, Append(received, i))
    ELSE notify_from(callbacks, i + 1, Append(received, i))

_notify_job_update(callbacks) == notify_from(callbacks, 1, << >>)

\* the notifications of one step: each goes to the whole subscriber list
Notify(notified) ==
  delivered' = IF notified = << >> THEN delivered
               ELSE _notify_job_update(job_update_callbacks)

\* ---- JobQueue.add_job_update_callback, remove_job_update_callback ----
add_job_update_callback(callback) ==
  /\ Len(job_update_callbacks) < MaxCallbacks
  /\ job_update_callbacks' = Append(job_update_callbacks, callback)
  /\ UNCHANGED << jobs, job_keys, job_queue, next_id, threads, sched, main_pc,
                  now, delivered, markers, iso_ids, polls, running,
                  worker_loops, tick, retrying,
                  lock, schedule_jobs >>

\* the callback object registered at place i
remove_job_update_callback(i) ==
  /\ i \in 1..Len(job_update_callbacks)
  /\ job_update_callbacks' =
       SubSeq(job_update_callbacks, 1, i - 1)
         \o SubSeq(job_update_callbacks, i + 1, Len(job_update_callbacks))
  /\ UNCHANGED << jobs, job_keys, job_queue, next_id, threads, sched, main_pc,
                  now, delivered, markers, iso_ids, polls, running,
                  worker_loops, tick, retrying,
                  lock, schedule_jobs >>

PollThreads == { "schedule", "manual" }

IdlePoll == [ pc |-> "idle", items |-> << >>, added_count |-> 0,
              jobs_added |-> 0, ret |-> FALSE ]

\* ---- BackgroundWorker.setup_scheduler, called by __init__: the periodic
\* tasks in the order they are registered ----
Tasks ==
  << "check_for_new_isos", "cleanup_old_jobs", "cleanup_download_manager",
     "database_maintenance" >>

Init ==
  /\ jobs = << >>
  /\ job_keys = << >>
  /\ job_queue = << >>
  /\ next_id = 0
  /\ threads = [ t \in 1..MaxThreads |-> FreeThread ]
  /\ sched = [ pc |-> "tick", job |-> 0, after |-> "tick" ]
  /\ main_pc = "loading"
  /\ now = 0
  /\ job_update_callbacks = << >>
  /\ delivered = [ received |-> << >>, escaped |-> FALSE ]
  /\ markers = [ job_id \in JobIds |-> { } ]
  /\ iso_ids = << >>
  /\ polls = [ p \in PollThreads |-> IdlePoll ]
  /\ running = TRUE
  /\ worker_loops = << "test" >>
  /\ tick = {}
  /\ retrying = 0
  /\ lock = "free"
  /\ schedule_jobs = { Tasks[i] : i \in 1..Len(Tasks) }

\* ---- the wall clock ----
Instants ==
  { w * 7 * DayMinutes + m : w \in 0..MaxWeeks, m \in { 0, burner_timeout + 1 } }

Advance ==
  /\ \E t \in Instants : t > now /\ now' = t
  /\ UNCHANGED << jobs, job_keys, job_queue, next_id, threads, sched, main_pc,
                  delivered, outside >>

\* add_job putting the new id at the head of the dispatch list
add_job_prepend(job_id) ==
  [ ret |-> job_id,
    jobs |-> [ i \in DOMAIN jobs \cup { job_id } |->
                 IF i = job_id THEN NewBurnJob(now) ELSE jobs[i] ],
    job_keys |-> IF job_id \in DOMAIN jobs THEN job_keys
                 ELSE Append(job_keys, job_id),
    job_queue |-> << job_id >> \o job_queue,
    notified |-> << job_id >> ]

\* ---- JobQueue.add_job: job_id is the fresh uuid ----
add_job(job_id) ==
  [ ret |-> job_id,
    jobs |-> [ i \in DOMAIN jobs \cup { job_id } |->
                 IF i = job_id THEN NewBurnJob(now) ELSE jobs[i] ],
    job_keys |-> IF job_id \in DOMAIN jobs THEN job_keys
                 ELSE Append(job_keys, job_id),
    job_queue |-> Append(job_queue, job_id),
    notified |-> << job_id >> ]

\* uuid4 never repeats: ids are handed out in sequence
AddJob ==
  /\ next_id < MaxJobs
  /\ Len(job_queue) < MaxQueue
  /\ sched.pc = "tick" \/ main_pc = "running"
  /\ LET r == add_job(next_id + 1) IN
       /\ next_id' = r.ret
       /\ jobs' = r.jobs
       /\ job_keys' = r.job_keys
       /\ job_queue' = r.job_queue
       /\ Notify(r.notified)
  /\ UNCHANGED << threads, sched, main_pc, now, outside >>

\* ---- JobQueue._can_process_job ----
active_jobs ==
  Cardinality({ i \in DOMAIN jobs : jobs[i].status \in in_progress_statuses })

\* a gate that admits a job only while there is capacity
_can_process_job_capacity_only(job) == active_jobs < max_concurrent_jobs

_can_process_job(job) ==
  active_jobs < max_concurrent_jobs \/ job.status \notin in_progress_statuses

\* get_next_job skipping a head the gate blocks
RECURSIVE get_next_job_skip(_)
get_next_job_skip(queue) ==
  IF queue = << >> THEN [ job_queue |-> queue, ret |-> 0 ]
  ELSE LET job_id == Head(queue) IN
    IF job_id \notin DOMAIN jobs THEN get_next_job_skip(Tail(queue))
    ELSE IF jobs[job_id].status \in { "cancelled", "completed", "failed" }
      THEN get_next_job_skip(Tail(queue))
    ELSE IF _can_process_job(jobs[job_id])
      THEN [ job_queue |-> Tail(queue), ret |-> job_id ]
    ELSE get_next_job_skip(Tail(queue))

\* ---- JobQueue.get_next_job: the dispatch list left behind and the job
\* returned (0 for None) ----
RECURSIVE get_next_job(_)
get_next_job(queue) ==
  IF queue = << >> THEN [ job_queue |-> queue, ret |-> 0 ]
  ELSE LET job_id == Head(queue) IN
    IF job_id \notin DOMAIN jobs THEN get_next_job(Tail(queue))
    ELSE IF jobs[job_id].status \in { "cancelled", "completed", "failed" }
      THEN get_next_job(Tail(queue))
    ELSE IF _can_process_job(jobs[job_id])
      THEN [ job_queue |-> Tail(queue), ret |-> job_id ]
    ELSE [ job_queue |-> queue, ret |-> 0 ]

\* cancel_job accepting a FAILED job
cancel_job_failed(job_id) ==
  LET unchanged == [ ret |-> FALSE, jobs |-> jobs, job_queue |-> job_queue,
                     notified |-> << >>, api |-> << >>,
                     cancel_download |-> FALSE ]
  IN
  IF job_id \notin DOMAIN jobs THEN unchanged
  ELSE LET job == jobs[job_id] IN
    IF job.status \in { "completed", "cancelled" } THEN unchanged
    ELSE
      [ ret |-> TRUE,
        jobs |-> [ jobs EXCEPT ![job_id] =
                     update_status(job, "cancelled", "Cancelled by user", now) ],
        job_queue |-> IF InSeq(job_queue, job_id)
                      THEN SeqRemoveFirst(job_queue, job_id)
                      ELSE job_queue,
        notified |-> << job_id >>,
        api |-> update_status_to_api(job, "cancelled", TRUE),
        cancel_download |-> job.status = "downloading" ]

\* ---- JobQueue.cancel_job ----
cancel_job(job_id) ==
  LET unchanged == [ ret |-> FALSE, jobs |-> jobs, job_queue |-> job_queue,
                     notified |-> << >>, api |-> << >>,
                     cancel_download |-> FALSE ]
  IN
  IF job_id \notin DOMAIN jobs THEN unchanged
  ELSE LET job == jobs[job_id] IN
    IF job.status \in { "completed", "failed", "cancelled" } THEN unchanged
    ELSE
      [ ret |-> TRUE,
        jobs |-> [ jobs EXCEPT ![job_id] =
                     update_status(job, "cancelled", "Cancelled by user", now) ],
        job_queue |-> IF InSeq(job_queue, job_id)
                      THEN SeqRemoveFirst(job_queue, job_id)
                      ELSE job_queue,
        notified |-> << job_id >>,
        api |-> update_status_to_api(job, "cancelled", TRUE),
        cancel_download |-> job.status = "downloading" ]

CancelJob(job_id) ==
  /\ main_pc = "running"
  /\ LET r == cancel_job(job_id) IN
       /\ jobs' = r.jobs
       /\ job_queue' = r.job_queue
       /\ Notify(r.notified)
  /\ UNCHANGED << job_keys, next_id, threads, sched, main_pc, now, outside >>

\* ---- JobQueue._cleanup_job_files: the files of the job's stem it leaves.
\* The control file goes; the call that lists the DON, INP and ERR files
\* names a method JobQueue does not have, and the AttributeError is logged.
_cleanup_job_files(job, files) ==
  IF job.jdf_path # NULL THEN files \ { "JDF" } ELSE files

\* retry_job leaving the id out of the dispatch list
retry_job_unqueued(job_id) ==
  IF job_id \notin DOMAIN jobs
  THEN [ ret |-> FALSE, jobs |-> jobs, job_queue |-> job_queue,
         notified |-> << >>, markers |-> markers ]
  ELSE
    [ ret |-> TRUE,
      jobs |-> [ jobs EXCEPT ![job_id] =
                   [ update_status(jobs[job_id], "pending", NULL, now) EXCEPT
                       !.error_message = NULL, !.progress = 0,
                       !.notification_sent = FALSE,
                       !.iso_path = NULL, !.jdf_path = NULL ] ],
      job_queue |-> job_queue,
      notified |-> << job_id >>,
      markers |-> [ markers EXCEPT ![job_id] =
                      _cleanup_job_files(jobs[job_id], markers[job_id]) ] ]

\* ---- JobQueue.retry_job ----
retry_job(job_id) ==
  IF job_id \notin DOMAIN jobs
  THEN [ ret |-> FALSE, jobs |-> jobs, job_queue |-> job_queue,
         notified |-> << >>, markers |-> markers ]
  ELSE
    [ ret |-> TRUE,
      jobs |-> [ jobs EXCEPT ![job_id] =
                   [ update_status(jobs[job_id], "pending", NULL, now) EXCEPT
                       !.error_message = NULL, !.progress = 0,
                       !.notification_sent = FALSE,
                       !.iso_path = NULL, !.jdf_path = NULL ] ],
      job_queue |-> Append(job_queue, job_id),
      notified |-> << job_id >>,
      markers |-> [ markers EXCEPT ![job_id] =
                      _cleanup_job_files(jobs[job_id], markers[job_id]) ] ]

RetryJob(job_id) ==
  /\ main_pc = "running"
  /\ Len(job_queue) < MaxQueue
  /\ LET r == retry_job(job_id) IN
       /\ jobs' = r.jobs
       /\ job_queue' = r.job_queue
       /\ markers' = r.markers
       /\ Notify(r.notified)
  /\ UNCHANGED << job_keys, next_id, threads, sched, main_pc, now,
                  job_update_callbacks, iso_ids, polls, running, worker_loops,
                  tick, retrying,
                  lock, schedule_jobs >>

\* retry_job in the two steps a thread that does not take the queue lock can
\* come between: the files are cleaned and update_status(PENDING) is called;
\* then the fields are cleared one by one, the id is queued and the
\* subscribers are told.  The stage handlers and the workers write a job
\* without the lock.
RetryBegin(job_id) ==
  /\ main_pc = "running"
  /\ retrying = 0
  /\ job_id \in DOMAIN jobs
  /\ Len(job_queue) < MaxQueue
  /\ jobs' = [ jobs EXCEPT ![job_id] = update_status(@, "pending", NULL, now) ]
  /\ markers' = [ markers EXCEPT ![job_id] =
                    _cleanup_job_files(jobs[job_id], @) ]
  /\ retrying' = job_id
  /\ UNCHANGED << job_keys, job_queue, next_id, threads, sched, main_pc, now,
                  delivered, job_update_callbacks, iso_ids, polls, running,
                  worker_loops, tick,
                  lock, schedule_jobs >>

RetryEnd ==
  /\ retrying # 0
  /\ jobs' = [ jobs EXCEPT ![retrying] =
                 [ @ EXCEPT !.error_message = NULL, !.progress = 0,
                            !.notification_sent = FALSE,
                            !.iso_path = NULL, !.jdf_path = NULL ] ]
  /\ job_queue' = Append(job_queue, retrying)
  /\ Notify(<< retrying >>)
  /\ retrying' = 0
  /\ UNCHANGED << job_keys, next_id, threads, sched, main_pc, now,
                  job_update_callbacks, markers, iso_ids, polls, running,
                  worker_loops, tick,
                  lock, schedule_jobs >>

\* ---- EpsonBurnerApp.show_job_notification: the job it leaves and whether
\* the tray showed a message ----
\* a notification that does not look at notification_sent
show_job_notification_always(job, show_notifications) ==
  IF job.status \in { "completed", "failed" }
  THEN [ job |-> [ job EXCEPT !.notification_sent = TRUE ], shown |-> TRUE ]
  ELSE [ job |-> job, shown |-> FALSE ]

show_job_notification(job, show_notifications) ==
  IF ~show_notifications \/ job.notification_sent
  THEN [ job |-> job, shown |-> FALSE ]
  ELSE IF job.status \in { "completed", "failed" }
  THEN [ job |-> [ job EXCEPT !.notification_sent = TRUE ], shown |-> TRUE ]
  ELSE [ job |-> job, shown |-> FALSE ]

\* ---- EpsonBurnerApp.on_job_updated_from_gui, the slot of the window's
\* job_updated signal, run by the GUI thread for a job the queue notified ----
on_job_updated_from_gui(job, show_notifications) ==
  IF job.status \in { "completed", "failed" }
  THEN show_job_notification(job, show_notifications)
  ELSE [ job |-> job, shown |-> FALSE ]

OnJobUpdatedFromGui(job_id, show_notifications) ==
  /\ main_pc = "running"
  /\ retrying = 0
  /\ job_id \in DOMAIN jobs
  /\ jobs' = [ jobs EXCEPT ![job_id] =
                 on_job_updated_from_gui(@, show_notifications).job ]
  /\ UNCHANGED << job_keys, job_queue, next_id, threads, sched, main_pc, now,
                  delivered, outside >>

\* cleanup_completed_jobs removing a job updated exactly at the cutoff
cleanup_completed_jobs_inclusive(max_age_days) ==
  LET cutoff_time == now - (max_age_days * DayMinutes)
      to_remove == { job_id \in DOMAIN jobs :
                       /\ jobs[job_id].status \in { "completed", "failed" }
                       /\ jobs[job_id].updated_at <= cutoff_time }
  IN [ i \in DOMAIN jobs \ to_remove |-> jobs[i] ]

\* ---- JobQueue.cleanup_completed_jobs, run by the scheduler's hourly task ----
cleanup_completed_jobs(max_age_days) ==
  LET cutoff_time == now - (max_age_days * DayMinutes)
      to_remove == { job_id \in DOMAIN jobs :
                       /\ jobs[job_id].status \in { "completed", "failed" }
                       /\ jobs[job_id].updated_at < cutoff_time }
  IN [ i \in DOMAIN jobs \ to_remove |-> jobs[i] ]

CleanupCompleted(max_age_days) ==
  /\ sched.pc = "tick"
  /\ LET kept == cleanup_completed_jobs(max_age_days) IN
       /\ jobs' = kept
       /\ job_keys' = SelectSeq(job_keys, LAMBDA i : i \in DOMAIN kept)
  /\ UNCHANGED << job_queue, next_id, threads, sched, main_pc, now,
                  delivered, outside >>

\* load_existing_jobs keeping the status the record was stored with
load_existing_jobs_as_stored(job_id, record) ==
  [ jobs |-> [ i \in DOMAIN jobs \cup { job_id } |->
                 IF i = job_id THEN record ELSE jobs[i] ],
    job_keys |-> IF job_id \in DOMAIN jobs THEN job_keys
                 ELSE Append(job_keys, job_id),
    job_queue |-> IF record.status \notin { "completed", "failed", "cancelled" }
                  THEN Append(job_queue, job_id) ELSE job_queue ]

\* ---- EpsonBurnerApp.load_existing_jobs: one persisted record per step ----
\* A persisted record is the snapshot of a job of an earlier run.  No code
\* assigns the status "verifying", so no record carries it.
StoredStatuses == JobStatus \ { "verifying" }

StoredJob(status, updated_at) ==
  [ status |-> status, updated_at |-> updated_at,
    error_message |-> CASE status = "failed" -> "Download failed"
                        [] status = "cancelled" -> "Cancelled by user"
                        [] OTHER -> NULL,
    progress |-> IF status = "completed" THEN 100 ELSE 0,
    iso_path |-> IF status \in { "downloaded", "generating_jdf", "jdf_ready",
                                 "queued_for_burning", "burning", "completed" }
                 THEN "iso" ELSE NULL,
    jdf_path |-> IF status \in { "jdf_ready", "queued_for_burning", "burning",
                                 "completed" }
                 THEN "jdf" ELSE NULL,
    retry_count |-> 0, notification_sent |-> FALSE ]

load_existing_jobs(job_id, record) ==
  LET job == [ record EXCEPT !.status =
                 CASE record.status = "burning" -> "queued_for_burning"
                   [] record.status = "downloading" -> "pending"
                   [] record.status = "generating_jdf" -> "downloaded"
                   [] OTHER -> record.status ]
  IN
  [ jobs |-> [ i \in DOMAIN jobs \cup { job_id } |->
                 IF i = job_id THEN job ELSE jobs[i] ],
    job_keys |-> IF job_id \in DOMAIN jobs THEN job_keys
                 ELSE Append(job_keys, job_id),
    job_queue |-> IF job.status \notin { "completed", "failed", "cancelled" }
                  THEN Append(job_queue, job_id) ELSE job_queue ]

LoadJob(status, updated_at) ==
  /\ main_pc = "loading"
  /\ next_id < MaxJobs
  /\ Len(job_queue) < MaxQueue
  /\ updated_at <= now
  /\ LET r == load_existing_jobs(next_id + 1, StoredJob(status, updated_at)) IN
       /\ next_id' = next_id + 1
       /\ jobs' = r.jobs
       /\ job_keys' = r.job_keys
       /\ job_queue' = r.job_queue
  /\ UNCHANGED << threads, sched, main_pc, now, delivered, outside >>

LoadDone ==
  /\ main_pc = "loading"
  /\ main_pc' = "running"
  /\ UNCHANGED << jobs, job_keys, job_queue, next_id, threads, sched, now,
                  delivered, outside >>

\* start_job_processing without its except clause
start_job_processing_uncaught(job, job_id, thread_ok) ==
  LET quiet == [ job |-> job, spawn |-> "none", generating |-> FALSE,
                 notified |-> << >>, api |-> << >> ]
  IN
  CASE job.status = "pending" ->
         LET started == update_status(job, "downloading", NULL, now) IN
         IF thread_ok
         THEN [ quiet EXCEPT !.job = started, !.spawn = "download",
                             !.notified = << job_id >> ]
         ELSE [ quiet EXCEPT !.job = started, !.notified = << job_id >> ]
    [] job.status = "downloaded" ->
         IF job.iso_path = NULL
         THEN [ quiet EXCEPT
                  !.job = update_status(job, "failed", "No ISO file path", now),
                  !.notified = << job_id >>,
                  !.api = update_status_to_api(job, "failed", TRUE) ]
         ELSE [ quiet EXCEPT
                  !.job = update_status(job, "generating_jdf", NULL, now),
                  !.generating = TRUE,
                  !.notified = << job_id >> ]
    [] job.status = "jdf_ready" ->
         [ quiet EXCEPT
             !.job = update_status(job, "queued_for_burning", NULL, now),
             !.notified = << job_id >> ]
    [] job.status = "queued_for_burning" ->
         LET started == [ update_status(job, "burning", NULL, now) EXCEPT
                            !.progress = 0 ] IN
         IF thread_ok
         THEN [ quiet EXCEPT !.job = started, !.spawn = "burn",
                             !.notified = << job_id >> ]
         ELSE [ quiet EXCEPT !.job = started, !.notified = << job_id >> ]
    [] OTHER -> quiet

\* ---- JobQueue.start_job_processing with the handlers it dispatches to ----
\* thread_ok: whether Thread.start() succeeds.  spawn: the thread started;
\* generating: the handler is inside the control-file generator.
start_job_processing(job, job_id, thread_ok) ==
  LET quiet == [ job |-> job, spawn |-> "none", generating |-> FALSE,
                 notified |-> << >>, api |-> << >> ]
  IN
  CASE job.status = "pending" ->
         LET started == update_status(job, "downloading", NULL, now) IN
         IF thread_ok
         THEN [ quiet EXCEPT !.job = started, !.spawn = "download",
                             !.notified = << job_id >> ]
         ELSE [ quiet EXCEPT
                  !.job = update_status(started, "failed", "can't start new thread", now),
                  !.notified = << job_id, job_id >>,
                  !.api = update_status_to_api(started, "failed", TRUE) ]
    [] job.status = "downloaded" ->
         IF job.iso_path = NULL
         THEN [ quiet EXCEPT
                  !.job = update_status(job, "failed", "No ISO file path", now),
                  !.notified = << job_id >>,
                  !.api = update_status_to_api(job, "failed", TRUE) ]
         ELSE [ quiet EXCEPT
                  !.job = update_status(job, "generating_jdf", NULL, now),
                  !.generating = TRUE,
                  !.notified = << job_id >> ]
    [] job.status = "jdf_ready" ->
         [ quiet EXCEPT
             !.job = update_status(job, "queued_for_burning", NULL, now),
             !.notified = << job_id >> ]
    [] job.status = "queued_for_burning" ->
         LET started == [ update_status(job, "burning", NULL, now) EXCEPT
                            !.progress = 0 ] IN
         IF thread_ok
         THEN [ quiet EXCEPT !.job = started, !.spawn = "burn",
                             !.notified = << job_id >> ]
         ELSE [ quiet EXCEPT
                  !.job = update_status(started, "failed", "can't start new thread", now),
                  !.notified = << job_id, job_id >>,
                  !.api = update_status_to_api(started, "failed", TRUE) ]
    [] OTHER -> quiet

FreeSlots == { t \in DOMAIN threads : threads[t].kind = "free" }

Spawn(kind, job_id) ==
  IF kind = "none" THEN threads
  ELSE LET t == CHOOSE x \in FreeSlots : \A y \in FreeSlots : x <= y IN
    [ threads EXCEPT ![t] =
        [ kind |-> kind, job |-> job_id,
          pc |-> IF kind = "burn" THEN "loop" ELSE "download",
          max_time |-> IF kind = "burn" THEN now + burner_timeout ELSE 0 ] ]

\* the scheduler calls start_job_processing and goes on at gen_next
StartProcessing(job_id, gen_next) ==
  \E thread_ok \in BOOLEAN :
    LET r == start_job_processing(jobs[job_id], job_id, thread_ok) IN
      /\ r.spawn # "none" => FreeSlots # { }
      /\ jobs' = [ jobs EXCEPT ![job_id] = r.job ]
      /\ threads' = Spawn(r.spawn, job_id)
      /\ Notify(r.notified)
      /\ sched' = IF r.generating
                  THEN [ pc |-> "jdf", job |-> job_id, after |-> gen_next ]
                  ELSE [ pc |-> gen_next, job |-> 0, after |-> "tick" ]

\* a control-file stage that tells nobody of a failure
_start_jdf_generation_quiet(job, job_id, ok) ==
  LET with_path == IF ok THEN [ job EXCEPT !.jdf_path = "jdf" ] ELSE job
      status == IF ok THEN "jdf_ready" ELSE "failed"
      message == IF ok THEN NULL ELSE "JDF generation failed"
  IN
  IF with_path.status = "cancelled"
  THEN [ job |-> with_path, notified |-> << job_id >>, api |-> << >> ]
  ELSE [ job |-> update_status(with_path, status, message, now),
         notified |-> IF ok THEN << job_id >> ELSE << >>,
         api |-> update_status_to_api(with_path, status, TRUE) ]

\* ---- JobQueue._start_jdf_generation after the generator returned ----
_start_jdf_generation(job, job_id, ok) ==
  LET with_path == IF ok THEN [ job EXCEPT !.jdf_path = "jdf" ] ELSE job
      status == IF ok THEN "jdf_ready" ELSE "failed"
      message == IF ok THEN NULL ELSE "JDF generation failed"
  IN
  IF with_path.status = "cancelled"
  THEN [ job |-> with_path, notified |-> << job_id >>, api |-> << >> ]
  ELSE [ job |-> update_status(with_path, status, message, now),
         notified |-> << job_id >>,
         api |-> update_status_to_api(with_path, status, TRUE) ]

JdfGenerated(ok) ==
  /\ sched.pc = "jdf"
  /\ LET r == _start_jdf_generation(jobs[sched.job], sched.job, ok) IN
       /\ jobs' = [ jobs EXCEPT ![sched.job] = r.job ]
       /\ Notify(r.notified)
  /\ sched' = [ pc |-> sched.after, job |-> 0, after |-> "tick" ]
  /\ UNCHANGED << job_keys, job_queue, next_id, threads, main_pc, now, outside >>

\* ---- the periodic tasks of BackgroundWorker.setup_scheduler ----
\* Each task gives whether its exception escapes it and the jobs it leaves.
\* The clean-up of the store comes before the clean-up of the queue, so a
\* clean-up that raises leaves the queue alone; the API answers the poll of
\* this tick with no new ISO or not at all.
\* a clean-up task without its try block
cleanup_old_jobs_unguarded(raised) ==
  [ escaped |-> raised,
    jobs |-> IF raised THEN jobs ELSE cleanup_completed_jobs(cleanup_max_age_days) ]

check_for_new_isos(raised) == [ escaped |-> FALSE, jobs |-> jobs ]

cleanup_old_jobs(raised) ==
  [ escaped |-> FALSE,
    jobs |-> IF raised THEN jobs ELSE cleanup_completed_jobs(cleanup_max_age_days) ]

cleanup_download_manager(raised) == [ escaped |-> FALSE, jobs |-> jobs ]

database_maintenance(raised) == [ escaped |-> FALSE, jobs |-> jobs ]

\* ---- db.BurnJob.cleanup_old_jobs: the cutoff is today's midnight with its
\* day of the month replaced by day - max_age_days.  datetime.replace raises
\* ValueError for a day below 1, which the method's `except SQLAlchemyError`
\* lets through; an SQLAlchemyError of the delete is caught and 0 returned ----
DaysOfMonth == 1..31

BurnJob_cleanup_old_jobs(day, max_age_days, sql_error) ==
  IF day - max_age_days < 1 THEN "raise"
  ELSE IF sql_error THEN "zero"
  ELSE "deleted"

\* the hourly task on a given day of the month
cleanup_old_jobs_on(day, sql_error) ==
  cleanup_old_jobs(
    BurnJob_cleanup_old_jobs(day, cleanup_max_age_days, sql_error) = "raise")

CleanupOldJobs(day, sql_error) ==
  /\ sched.pc = "tick"
  /\ LET r == cleanup_old_jobs_on(day, sql_error) IN
       /\ jobs' = r.jobs
       /\ job_keys' = SelectSeq(job_keys, LAMBDA i : i \in DOMAIN r.jobs)
  /\ UNCHANGED << job_queue, next_id, threads, sched, main_pc, now,
                  delivered, outside >>

run_task(task, raised) ==
  CASE task = "check_for_new_isos" -> check_for_new_isos(raised)
    [] task = "cleanup_old_jobs" -> cleanup_old_jobs(raised)
    [] task = "cleanup_download_manager" -> cleanup_download_manager(raised)
    [] OTHER -> database_maintenance(raised)

\* schedule.run_pending: the due tasks run in turn until an exception escapes
\* one; ran holds the tasks that were called
run_pending(due, raising) ==
  LET escaping == { i \in 1..Len(Tasks) :
                      /\ Tasks[i] \in due
                      /\ run_task(Tasks[i], Tasks[i] \in raising).escaped }
      last == IF escaping = {} THEN Len(Tasks)
              ELSE CHOOSE i \in escaping : \A k \in escaping : i <= k
      ran == { Tasks[i] : i \in { k \in 1..last : Tasks[k] \in due } }
  IN [ escaped |-> escaping # {},
       ran |-> ran,
       jobs |-> IF "cleanup_old_jobs" \in ran
                THEN run_task("cleanup_old_jobs", "cleanup_old_jobs" \in raising).jobs
                ELSE jobs ]

\* ---- BackgroundWorker._worker_loop: run_pending, then the dispatch; an
\* exception that escapes ends the loop ----
RunPending(due, raising) ==
  /\ sched.pc = "tick"
  /\ due \subseteq schedule_jobs
  /\ raising \subseteq due
  /\ LET r == run_pending(due, raising) IN
       /\ jobs' = r.jobs
       /\ job_keys' = SelectSeq(job_keys, LAMBDA i : i \in DOMAIN r.jobs)
       /\ tick' = raising \cap r.ran
       /\ sched' = [ pc |-> IF r.escaped THEN "ended" ELSE "dispatch",
                     job |-> 0, after |-> "tick" ]
  /\ UNCHANGED << job_queue, next_id, threads, main_pc, now, delivered,
                  job_update_callbacks, markers, iso_ids, polls, running,
                  worker_loops, retrying,
                  lock, schedule_jobs >>

\* ---- BackgroundWorker._process_job_queue ----
\* get_next_job follows run_pending: at once when no periodic task is due
ProcessGetNext ==
  /\ sched.pc \in { "tick", "dispatch" }
  /\ LET r == get_next_job(job_queue) IN
       /\ job_queue' = r.job_queue
       /\ sched' = IF r.ret # 0
                   THEN [ pc |-> "start", job |-> r.ret, after |-> "tick" ]
                   ELSE [ pc |-> "ready", job |-> 0, after |-> "tick" ]
  /\ UNCHANGED << jobs, job_keys, next_id, threads, main_pc, now,
                  delivered, outside >>

ProcessStart ==
  /\ sched.pc = "start"
  /\ StartProcessing(sched.job, "ready")
  /\ UNCHANGED << job_keys, job_queue, next_id, main_pc, now, outside >>

\* a ready scan that passes over the DOWNLOADED jobs
_check_ready_jobs_no_downloaded ==
  LET ready_jobs == SelectSeq(job_keys, LAMBDA i :
        jobs[i].status \in { "jdf_ready", "queued_for_burning" })
  IN IF ready_jobs # << >> /\ active_jobs < max_concurrent_jobs
     THEN Head(ready_jobs) ELSE 0

\* a ready scan that does not count the active jobs
_check_ready_jobs_unlimited ==
  LET ready_jobs == SelectSeq(job_keys, LAMBDA i :
        jobs[i].status \in { "downloaded", "jdf_ready", "queued_for_burning" })
  IN IF ready_jobs # << >> THEN Head(ready_jobs) ELSE 0

\* ---- BackgroundWorker._check_ready_jobs: the job it starts (0 for none) ----
_check_ready_jobs ==
  LET ready_jobs == SelectSeq(job_keys, LAMBDA i :
        jobs[i].status \in { "downloaded", "jdf_ready", "queued_for_burning" })
  IN IF ready_jobs # << >> /\ active_jobs < max_concurrent_jobs
     THEN Head(ready_jobs) ELSE 0

CheckReadyJobs ==
  /\ sched.pc = "ready"
  /\ IF _check_ready_jobs # 0
     THEN StartProcessing(_check_ready_jobs, "tick")
     ELSE /\ sched' = [ pc |-> "tick", job |-> 0, after |-> "tick" ]
          /\ UNCHANGED << jobs, threads, delivered >>
  /\ UNCHANGED << job_keys, job_queue, next_id, main_pc, now, outside >>

\* ---- BurnJob.detect_disc_type: "raise" for the exception ----
\* a size of exactly 4.5 GB rejected
detect_disc_type_strict(file_size) ==
  IF file_size < 700 * MiB THEN "CD"
  ELSE IF file_size < 4608 * MiB THEN "DVD"
  ELSE "raise"

detect_disc_type(file_size) ==
  IF file_size < 700 * MiB THEN "CD"
  ELSE IF file_size <= 4608 * MiB THEN "DVD"
  ELSE "raise"

\* sizes of fetched images, around the two limits
FileSizes ==
  { 0, 650 * MiB, 700 * MiB - 1, 700 * MiB, 700 * MiB + 1, 4000 * MiB,
    4608 * MiB - 1, 4608 * MiB, 4608 * MiB + 1, 4700 * MiB }

\* ---- JobQueue._download_worker after download_iso returned ----
\* "ok": a path and a size of at most 4.5 GB; "empty": no path; "raise":
\* a path whose size detect_disc_type rejects
DownloadOutcomes == { "ok", "empty", "raise" }

_download_worker(job, job_id, outcome) ==
  LET with_path == IF outcome = "empty" THEN job
                   ELSE [ job EXCEPT !.iso_path = "iso" ]
      cancelled == with_path.status = "cancelled"
  IN
  CASE outcome = "ok" ->
         [ job |-> IF cancelled THEN with_path
                   ELSE update_status(with_path, "downloaded", NULL, now),
           notified |-> << job_id >>, api |-> << >> ]
    [] outcome = "empty" ->
         [ job |-> IF cancelled THEN with_path
                   ELSE update_status(with_path, "failed", "Download failed", now),
           notified |-> << job_id >>,
           api |-> IF cancelled THEN << >>
                   ELSE update_status_to_api(with_path, "failed", TRUE) ]
    [] outcome = "raise" ->
         [ job |-> update_status(with_path, "failed", "File size exceeds 4.5GB", now),
           notified |-> << job_id >>,
           api |-> update_status_to_api(with_path, "failed", TRUE) ]

DownloadWorker(t, outcome) ==
  /\ threads[t].kind = "download"
  /\ threads' = [ threads EXCEPT ![t] = FreeThread ]
  /\ LET job_id == threads[t].job IN
       IF job_id \in DOMAIN jobs
       THEN jobs' = [ jobs EXCEPT ![job_id] =
                        _download_worker(jobs[job_id], job_id, outcome).job ]
       ELSE UNCHANGED jobs
  /\ Notify(<< threads[t].job >>)
  /\ UNCHANGED << job_keys, job_queue, next_id, sched, main_pc, now, outside >>

\* a burn loop that never times out
_burn_loop_forever(job, job_id, max_time) ==
  IF job.status # "burning"
  THEN [ job |-> job, pc |-> "none", notified |-> << >>, api |-> << >> ]
  ELSE [ job |-> job, pc |-> "check", notified |-> << >>, api |-> << >> ]

\* the download worker after download_iso returned a file of this size
fetch_outcome(file_size) ==
  IF detect_disc_type(file_size) = "raise" THEN "raise" ELSE "ok"

DownloadSized(t, file_size) == DownloadWorker(t, fetch_outcome(file_size))

\* ---- GraphQLClient.download_iso_file: whether it reports success and
\* whether the file it wrote is still on the disk ----
DownloadFaults == { "none", "size_mismatch", "checksum_mismatch", "error" }

download_iso_file(fault) ==
  IF fault = "none" THEN [ success |-> TRUE, file |-> TRUE ]
  ELSE \* os.remove(download_path); return False
       [ success |-> FALSE, file |-> FALSE ]

\* ---- the whole fetch of a job: download_iso, which returns the path of a
\* successful download and "" otherwise, then the rest of _download_worker;
\* no branch of _download_worker deletes a file ----
download_iso(fault, file_size) ==
  IF download_iso_file(fault).success THEN fetch_outcome(file_size) ELSE "empty"

fetch(job, job_id, fault, file_size) ==
  [ job |-> _download_worker(job, job_id, download_iso(fault, file_size)).job,
    file |-> download_iso_file(fault).file ]

DownloadFetched(t, fault, file_size) ==
  DownloadWorker(t, download_iso(fault, file_size))

\* ---- JobQueue._burn_loop: the loop test and the timeout ----
_burn_loop(job, job_id, max_time) ==
  IF job.status # "burning"
  THEN [ job |-> job, pc |-> "none", notified |-> << >>, api |-> << >> ]
  ELSE IF now > max_time
  THEN [ job |-> update_status(job, "failed", "Burning timed out", now),
         pc |-> "none", notified |-> << job_id >>,
         api |-> update_status_to_api(job, "failed", TRUE) ]
  ELSE [ job |-> job, pc |-> "check", notified |-> << >>, api |-> << >> ]

\* ---- JobQueue._check_burn_status, then the notification and the sleep of
\* the burn loop; status is what JDFHandler.status returned ----
JDFStatus == { "WAITING", "PROCESSING", "ERROR", "SUCCESS", "NOT_FOUND" }

\* a poll that ignores the INP file
_check_burn_status_no_progress(job, job_id, status) ==
  IF job.jdf_path = NULL
  THEN \* JDFHandler(None) raises; _burn_loop catches it and ends
       [ job |-> update_status(job, "failed", "JDF file path must be provided", now),
         pc |-> "none", notified |-> << job_id >>,
         api |-> update_status_to_api(job, "failed", TRUE) ]
  ELSE
  CASE status = "SUCCESS" ->
         [ job |-> [ update_status(job, "completed", NULL, now) EXCEPT
                       !.progress = 100 ],
           pc |-> "loop", notified |-> << job_id >>,
           api |-> update_status_to_api(job, "completed", TRUE) ]
    [] status = "PROCESSING" ->
         [ job |-> job,
           pc |-> "loop", notified |-> << job_id >>, api |-> << >> ]
    [] status = "ERROR" ->
         [ job |-> update_status(job, "failed", "Burning failed", now),
           pc |-> "loop", notified |-> << job_id >>,
           api |-> update_status_to_api(job, "failed", TRUE) ]
    [] OTHER ->
         [ job |-> job, pc |-> "loop", notified |-> << job_id >>, api |-> << >> ]

_check_burn_status(job, job_id, status) ==
  IF job.jdf_path = NULL
  THEN \* JDFHandler(None) raises; _burn_loop catches it and ends
       [ job |-> update_status(job, "failed", "JDF file path must be provided", now),
         pc |-> "none", notified |-> << job_id >>,
         api |-> update_status_to_api(job, "failed", TRUE) ]
  ELSE
  CASE status = "SUCCESS" ->
         [ job |-> [ update_status(job, "completed", NULL, now) EXCEPT
                       !.progress = 100 ],
           pc |-> "loop", notified |-> << job_id >>,
           api |-> update_status_to_api(job, "completed", TRUE) ]
    [] status = "PROCESSING" ->
         [ job |-> [ job EXCEPT !.progress = 50 ],
           pc |-> "loop", notified |-> << job_id >>, api |-> << >> ]
    [] status = "ERROR" ->
         [ job |-> update_status(job, "failed", "Burning failed", now),
           pc |-> "loop", notified |-> << job_id >>,
           api |-> update_status_to_api(job, "failed", TRUE) ]
    [] OTHER ->
         [ job |-> job, pc |-> "loop", notified |-> << job_id >>, api |-> << >> ]

\* ---- JDFHandler.get_status: files are the extensions of the files whose
\* name starts with the control file's stem ----
MarkerFiles == { "JDF", "INP", "ERR", "DON" }

\* the DON file looked for before the ERR file
file_ext_map_don_first ==
  << << "DON", "SUCCESS" >>, << "ERR", "ERROR" >>, << "INP", "PROCESSING" >>,
     << "JDF", "WAITING" >> >>

file_ext_map ==
  << << "ERR", "ERROR" >>, << "DON", "SUCCESS" >>, << "INP", "PROCESSING" >>,
     << "JDF", "WAITING" >> >>

RECURSIVE first_match(_, _)
first_match(files, ext_map) ==
  IF ext_map = << >> THEN "NOT_FOUND"
  ELSE IF Head(ext_map)[1] \in files THEN Head(ext_map)[2]
  ELSE first_match(files, Tail(ext_map))

get_status(files) == first_match(files, file_ext_map)

BurnStep(t, r) ==
  /\ threads' = [ threads EXCEPT ![t] =
                    IF r.pc = "none" THEN FreeThread
                    ELSE [ threads[t] EXCEPT !.pc = r.pc ] ]
  /\ jobs' = [ jobs EXCEPT ![threads[t].job] = r.job ]
  /\ Notify(r.notified)
  /\ UNCHANGED << job_keys, job_queue, next_id, sched, main_pc, now, outside >>

BurnLoop(t) ==
  /\ threads[t].kind = "burn"
  /\ threads[t].pc = "loop"
  /\ threads[t].job \in DOMAIN jobs
  /\ BurnStep(t, _burn_loop(jobs[threads[t].job], threads[t].job,
                            threads[t].max_time))

CheckBurnStatus(t, status) ==
  /\ threads[t].kind = "burn"
  /\ threads[t].pc = "check"
  /\ threads[t].job \in DOMAIN jobs
  /\ BurnStep(t, _check_burn_status(jobs[threads[t].job], threads[t].job, status))

\* the poll of the burn loop, reading the files of the job's stem
PollMarkers(t) ==
  /\ threads[t].job \in DOMAIN markers
  /\ CheckBurnStatus(t, get_status(markers[threads[t].job]))

\* the burner, or anyone with access to its folder, leaves these files for
\* the stem of a job that was handed to it
Device(job_id, files) ==
  /\ job_id \in DOMAIN jobs
  /\ jobs[job_id].status = "burning"
  /\ markers' = [ markers EXCEPT ![job_id] = files ]
  /\ UNCHANGED << jobs, job_keys, job_queue, next_id, threads, sched, main_pc,
                  now, delivered, job_update_callbacks, iso_ids, polls,
                  running, worker_loops, tick, retrying,
                  lock, schedule_jobs >>

\* ---- BackgroundWorker.check_for_new_isos, run by the scheduler's periodic
\* task and, through trigger_api_check_now, by the GUI thread ----
\* items: what is left of the response; added_count: the local counter;
\* jobs_added: the jobs this poll put in the queue; ret: the value returned
IsoIds == 1..MaxIsos

Responses ==
  { << >> } \cup UNION { [ 1..n -> IsoIds ] : n \in 1..MaxItems }

\* query_new_isos returned the response, or raised
PollQuery(p, response, raised) ==
  /\ polls[p].pc = "idle"
  /\ polls' = [ polls EXCEPT ![p] =
       IF raised \/ response = << >>
       THEN [ IdlePoll EXCEPT !.pc = "done", !.ret = FALSE ]
       ELSE [ IdlePoll EXCEPT !.pc = "check", !.items = response ] ]
  /\ UNCHANGED << jobs, job_keys, job_queue, next_id, threads, sched, main_pc,
                  now, delivered, job_update_callbacks, markers, iso_ids,
                  running, worker_loops, tick, retrying,
                  lock, schedule_jobs >>

\* the jobs get_all_jobs returns that were made from this item
existing_jobs(iso_id) ==
  { job_id \in DOMAIN jobs \cap DOMAIN iso_ids : iso_ids[job_id] = iso_id }

\* the head of the loop: the next item is looked up, or the loop is over
PollCheck(p) ==
  /\ polls[p].pc = "check"
  /\ LET poll == polls[p] IN
       polls' = [ polls EXCEPT ![p] =
         IF poll.items = << >>
         THEN [ poll EXCEPT !.pc = "done", !.ret = (poll.added_count > 0) ]
         ELSE IF existing_jobs(Head(poll.items)) # { }
         THEN [ poll EXCEPT !.items = Tail(poll.items) ]
         ELSE [ poll EXCEPT !.pc = "add" ] ]
  /\ UNCHANGED << jobs, job_keys, job_queue, next_id, threads, sched, main_pc,
                  now, delivered, job_update_callbacks, markers, iso_ids,
                  running, worker_loops, tick, retrying,
                  lock, schedule_jobs >>

\* add_job, then save_job, which raises when the write fails
PollAdd(p, save_ok) ==
  /\ polls[p].pc = "add"
  /\ next_id < MaxJobs
  /\ Len(job_queue) < MaxQueue
  /\ LET r == add_job(next_id + 1) IN
       /\ next_id' = r.ret
       /\ jobs' = r.jobs
       /\ job_keys' = r.job_keys
       /\ job_queue' = r.job_queue
       /\ Notify(r.notified)
       /\ iso_ids' = [ job_id \in DOMAIN iso_ids \cup { r.ret } |->
                        IF job_id = r.ret THEN Head(polls[p].items)
                        ELSE iso_ids[job_id] ]
  /\ LET poll == polls[p] IN
       polls' = [ polls EXCEPT ![p] =
         [ poll EXCEPT !.pc = "check", !.items = Tail(poll.items),
                       !.added_count = IF save_ok THEN poll.added_count + 1
                                       ELSE poll.added_count,
                       !.jobs_added = poll.jobs_added + 1 ] ]
  /\ UNCHANGED << threads, sched, main_pc, now, job_update_callbacks, markers,
                  running, worker_loops, tick, retrying,
                  lock, schedule_jobs >>

\* the caller took the value returned
PollReturn(p) ==
  /\ polls[p].pc = "done"
  /\ polls' = [ polls EXCEPT ![p] = IdlePoll ]
  /\ UNCHANGED << jobs, job_keys, job_queue, next_id, threads, sched, main_pc,
                  now, delivered, job_update_callbacks, markers, iso_ids,
                  running, worker_loops, tick, retrying,
                  lock, schedule_jobs >>

\* load_existing_jobs reads the persisted record of an item that no job of
\* the table was made from
LoadStored(status, iso_id) ==
  /\ main_pc = "loading"
  /\ next_id < MaxJobs
  /\ Len(job_queue) < MaxQueue
  /\ existing_jobs(iso_id) = { }
  /\ LET r == load_existing_jobs(next_id + 1, StoredJob(status, now)) IN
       /\ next_id' = next_id + 1
       /\ jobs' = r.jobs
       /\ job_keys' = r.job_keys
       /\ job_queue' = r.job_queue
       /\ iso_ids' = [ job_id \in DOMAIN iso_ids \cup { next_id + 1 } |->
                        IF job_id = next_id + 1 THEN iso_id
                        ELSE iso_ids[job_id] ]
  /\ UNCHANGED << threads, sched, main_pc, now, delivered,
                  job_update_callbacks, markers, polls, running,
                  worker_loops, tick, retrying,
                  lock, schedule_jobs >>

\* ---- BackgroundWorker.start, stop and the threads running _worker_loop ----
\* A loop is at "test" (the while condition), at "work" (run_pending and
\* _process_job_queue), at "sleep", or has "ended".
\* start and stop give the flag, the threads and the registered periodic
\* tasks they leave behind
\* a start that does not look at the flag
start_unguarded(is_running, loops, scheduled) ==
  [ running |-> TRUE, worker_loops |-> Append(loops, "test"),
    schedule_jobs |-> scheduled ]

start(is_running, loops, scheduled) ==
  IF is_running
  THEN [ running |-> is_running, worker_loops |-> loops,
         schedule_jobs |-> scheduled ]
  ELSE [ running |-> TRUE, worker_loops |-> Append(loops, "test"),
         schedule_jobs |-> scheduled ]

\* schedule.clear() drops every registered task; join(timeout=5) returns
\* when the loop has ended or after five seconds
stop(is_running, loops, scheduled) ==
  IF ~is_running
  THEN [ running |-> is_running, worker_loops |-> loops,
         schedule_jobs |-> scheduled ]
  ELSE [ running |-> FALSE, worker_loops |-> loops, schedule_jobs |-> { } ]

Start ==
  /\ Len(worker_loops) < MaxLoops
  /\ LET r == start(running, worker_loops, schedule_jobs) IN
       /\ running' = r.running
       /\ worker_loops' = r.worker_loops
       /\ schedule_jobs' = r.schedule_jobs
  /\ UNCHANGED << jobs, job_keys, job_queue, next_id, threads, sched, main_pc,
                  now, delivered, job_update_callbacks, markers, iso_ids, polls,
                  tick, retrying, lock >>

Stop ==
  /\ LET r == stop(running, worker_loops, schedule_jobs) IN
       /\ running' = r.running
       /\ worker_loops' = r.worker_loops
       /\ schedule_jobs' = r.schedule_jobs
  /\ UNCHANGED << jobs, job_keys, job_queue, next_id, threads, sched, main_pc,
                  now, delivered, job_update_callbacks, markers, iso_ids, polls,
                  tick, retrying, lock >>

LoopStep(i, from, to) ==
  /\ i \in 1..Len(worker_loops)
  /\ worker_loops[i] = from
  /\ worker_loops' = [ worker_loops EXCEPT ![i] = to ]
  /\ UNCHANGED << jobs, job_keys, job_queue, next_id, threads, sched, main_pc,
                  now, delivered, job_update_callbacks, markers, iso_ids, polls,
                  running, tick, retrying,
                  lock, schedule_jobs >>

LoopTest(i) == LoopStep(i, "test", IF running THEN "work" ELSE "ended")

LoopWork(i) == LoopStep(i, "work", "sleep")

LoopWake(i) == LoopStep(i, "sleep", "test")

\* ---- JobQueue.lock: `with self.lock` around the body of add_job,
\* get_next_job, cancel_job, retry_job and cleanup_completed_jobs ----
\* A thread enters the block when no thread is inside; the mutation and the
\* release are the step that leaves it.  The scheduler's thread runs
\* get_next_job, the hourly cleanup and the add_job of the polling task; the
\* main thread runs the window's cancel_job and retry_job.
LockThreads == { "scheduler", "main" }

Enter(who) ==
  /\ lock = "free"
  /\ who = "main" => main_pc = "running"
  /\ who = "scheduler" => sched.pc \in { "tick", "dispatch" }
  /\ lock' = who
  /\ UNCHANGED << jobs, job_keys, job_queue, next_id, threads, sched, main_pc,
                  now, delivered, job_update_callbacks, markers, iso_ids,
                  polls, running, worker_loops, tick, retrying,
                  schedule_jobs >>

\* what every block leaves alone
LockedRest ==
  /\ lock' = "free"
  /\ UNCHANGED << threads, main_pc, now, job_update_callbacks, iso_ids, polls,
                  running, worker_loops, tick, retrying, schedule_jobs >>

LockedAddJob ==
  /\ lock = "scheduler"
  /\ next_id < MaxJobs
  /\ Len(job_queue) < MaxQueue
  /\ LET r == add_job(next_id + 1) IN
       /\ next_id' = r.ret
       /\ jobs' = r.jobs
       /\ job_keys' = r.job_keys
       /\ job_queue' = r.job_queue
       /\ Notify(r.notified)
  /\ UNCHANGED << sched, markers >>
  /\ LockedRest

LockedGetNext ==
  /\ lock = "scheduler"
  /\ LET r == get_next_job(job_queue) IN
       /\ job_queue' = r.job_queue
       /\ sched' = [ pc |-> "tick", job |-> 0, after |-> "tick" ]
  /\ UNCHANGED << jobs, job_keys, next_id, delivered, markers >>
  /\ LockedRest

LockedCleanup ==
  /\ lock = "scheduler"
  /\ LET kept == cleanup_completed_jobs(cleanup_max_age_days) IN
       /\ jobs' = kept
       /\ job_keys' = SelectSeq(job_keys, LAMBDA i : i \in DOMAIN kept)
  /\ UNCHANGED << job_queue, next_id, sched, delivered, markers >>
  /\ LockedRest

LockedCancelJob(job_id) ==
  /\ lock = "main"
  /\ LET r == cancel_job(job_id) IN
       /\ jobs' = r.jobs
       /\ job_queue' = r.job_queue
       /\ Notify(r.notified)
  /\ UNCHANGED << job_keys, next_id, sched, markers >>
  /\ LockedRest

LockedRetryJob(job_id) ==
  /\ lock = "main"
  /\ Len(job_queue) < MaxQueue
  /\ LET r == retry_job(job_id) IN
       /\ jobs' = r.jobs
       /\ job_queue' = r.job_queue
       /\ markers' = r.markers
       /\ Notify(r.notified)
  /\ UNCHANGED << job_keys, next_id, sched >>
  /\ LockedRest

\* ---- the steps of the threads ----
Startup ==
  \/ \E status \in StoredStatuses, updated_at \in Instants :
       LoadJob(status, updated_at)
  \/ LoadDone

Operations ==
  \/ AddJob
  \/ \E job_id \in JobIds : CancelJob(job_id)
  \/ \E job_id \in JobIds : RetryJob(job_id)

Scheduler ==
  \/ ProcessGetNext
  \/ ProcessStart
  \/ \E ok \in BOOLEAN : JdfGenerated(ok)
  \/ CheckReadyJobs

Workers ==
  \/ \E t \in DOMAIN threads, outcome \in DownloadOutcomes : DownloadWorker(t, outcome)
  \/ \E t \in DOMAIN threads : BurnLoop(t)
  \/ \E t \in DOMAIN threads, status \in JDFStatus : CheckBurnStatus(t, status)

\* The queue, the scheduler and the workers at one instant of the clock.
Next == Startup \/ Operations \/ Scheduler \/ Workers

Spec == Init /\ [][Next]_vars

\* The queue's operations and the hourly cleanup as the clock advances, with
\* the scheduler dispatching nothing.
NextTime ==
  \/ Startup
  \/ Operations
  \/ CleanupCompleted(cleanup_max_age_days)
  \/ Advance

SpecTime == Init /\ [][NextTime]_vars

\* The hourly cleanup task on the days of a month, as the clock advances.
NextCleanup ==
  \/ Startup
  \/ Operations
  \/ \E day \in DaysOfMonth, sql_error \in BOOLEAN : CleanupOldJobs(day, sql_error)
  \/ Advance

SpecCleanup == Init /\ [][NextCleanup]_vars

\* The queue's operations with subscribers that come and go.
Subscribers ==
  \/ \E callback \in { "ok", "raise" } : add_job_update_callback(callback)
  \/ \E i \in 1..MaxCallbacks : remove_job_update_callback(i)

NextNotify == Startup \/ Operations \/ Subscribers

SpecNotify == Init /\ [][NextNotify]_vars

\* The pipeline when every stage succeeds: threads start, the fetch returns
\* an image of a valid size, the control file is generated, the burner
\* reports WAITING, then PROCESSING, then SUCCESS before the timeout; nobody
\* cancels or retries.
NoFailure == \A job_id \in DOMAIN jobs' : jobs'[job_id].status # "failed"

NextLive ==
  \/ LoadDone
  \/ AddJob
  \/ ProcessGetNext
  \/ ProcessStart /\ NoFailure
  \/ JdfGenerated(TRUE)
  \/ CheckReadyJobs /\ NoFailure
  \/ \E t \in DOMAIN threads : DownloadWorker(t, "ok")
  \/ \E t \in DOMAIN threads : BurnLoop(t)
  \/ \E t \in DOMAIN threads, status \in { "WAITING", "PROCESSING", "SUCCESS" } :
       CheckBurnStatus(t, status)

\* the scheduler loop and the worker threads keep running, and the burner
\* finishes the disc
Fairness ==
  /\ WF_vars(ProcessGetNext)
  /\ WF_vars(ProcessStart /\ NoFailure)
  /\ WF_vars(JdfGenerated(TRUE))
  /\ WF_vars(CheckReadyJobs /\ NoFailure)
  /\ \A t \in 1..MaxThreads :
       /\ WF_vars(DownloadWorker(t, "ok"))
       /\ WF_vars(BurnLoop(t))
       /\ SF_vars(CheckBurnStatus(t, "SUCCESS"))

SpecLive == Init /\ [][NextLive]_vars /\ Fairness

\* Jobs that reach the burner, and every combination of the burner's files.
ToBurner ==
  \/ \E status \in { "jdf_ready", "queued_for_burning", "burning" } :
       LoadJob(status, 0)
  \/ LoadDone
  \/ ProcessGetNext
  \/ ProcessStart
  \/ CheckReadyJobs
  \/ \E t \in DOMAIN threads : BurnLoop(t)
  \/ \E t \in DOMAIN threads : PollMarkers(t)

NextBurn ==
  \/ ToBurner
  \/ \E job_id \in JobIds, files \in SUBSET MarkerFiles : Device(job_id, files)

SpecBurn == Init /\ [][NextBurn]_vars

\* Jobs that reach the burner as time passes; the burner finishes a disc or
\* leaves it waiting.
NextTimeout ==
  \/ ToBurner
  \/ \E job_id \in JobIds, files \in { { "JDF" }, { "JDF", "DON" } } :
       Device(job_id, files)
  \/ Advance

\* the burn loops keep polling and time passes
FairnessTimeout ==
  /\ WF_vars(Advance)
  /\ \A t \in 1..MaxThreads : WF_vars(BurnLoop(t)) /\ WF_vars(PollMarkers(t))

SpecTimeout == Init /\ [][NextTimeout]_vars /\ FairnessTimeout

\* Jobs whose fetched image has any of the sizes.
NextFetch ==
  \/ AddJob
  \/ LoadDone
  \/ \E job_id \in JobIds : CancelJob(job_id)
  \/ Scheduler
  \/ \E t \in DOMAIN threads, file_size \in FileSizes : DownloadSized(t, file_size)
  \/ \E t \in DOMAIN threads : BurnLoop(t)
  \/ \E t \in DOMAIN threads, status \in { "SUCCESS", "ERROR" } :
       CheckBurnStatus(t, status)

SpecFetch == Init /\ [][NextFetch]_vars

\* Jobs whose fetch succeeds with an image of any size, or ends in a size
\* mismatch, a checksum mismatch or a transfer error.
NextIntegrity ==
  \/ AddJob
  \/ LoadDone
  \/ ProcessGetNext
  \/ ProcessStart
  \/ \E ok \in BOOLEAN : JdfGenerated(ok)
  \/ CheckReadyJobs
  \/ \E t \in DOMAIN threads, fault \in DownloadFaults, file_size \in FileSizes :
       DownloadFetched(t, fault, file_size)

SpecIntegrity == Init /\ [][NextIntegrity]_vars

\* The polling task on the scheduler's thread and on the GUI thread, while
\* persisted jobs are loaded.
NextPoll ==
  \/ \E status \in { "pending", "completed" }, iso_id \in IsoIds :
       LoadStored(status, iso_id)
  \/ LoadDone
  \/ \E p \in PollThreads, response \in Responses, raised \in BOOLEAN :
       PollQuery(p, response, raised)
  \/ \E p \in PollThreads : PollCheck(p)
  \/ \E p \in PollThreads, save_ok \in BOOLEAN : PollAdd(p, save_ok)
  \/ \E p \in PollThreads : PollReturn(p)

SpecPoll == Init /\ [][NextPoll]_vars

\* Jobs that reach the burner, are failed or completed by its files, and are
\* retried.
NextRetry ==
  \/ ToBurner
  \/ \E job_id \in JobIds,
        files \in { { "JDF" }, { "JDF", "ERR" }, { "JDF", "DON" } } :
       Device(job_id, files)
  \/ \E job_id \in JobIds : RetryJob(job_id)

SpecRetry == Init /\ [][NextRetry]_vars

\* Added jobs that go through the pipeline and are retried once they are
\* FAILED or COMPLETED, while the GUI thread handles the updates of the queue.
NextNotice ==
  \/ AddJob
  \/ LoadDone
  \/ \E job_id \in DOMAIN jobs :
       /\ jobs[job_id].status \in { "failed", "completed" }
       /\ RetryJob(job_id)
  \/ ProcessGetNext
  \/ ProcessStart
  \/ JdfGenerated(TRUE)
  \/ CheckReadyJobs
  \/ \E t \in DOMAIN threads, outcome \in { "ok", "raise" } :
       DownloadWorker(t, outcome)
  \/ \E t \in DOMAIN threads : BurnLoop(t)
  \/ \E t \in DOMAIN threads, status \in { "SUCCESS", "ERROR" } :
       CheckBurnStatus(t, status)
  \/ \E job_id \in JobIds, show_notifications \in BOOLEAN :
       OnJobUpdatedFromGui(job_id, show_notifications)

SpecNotice == Init /\ [][NextNotice]_vars

\* Two subscribers registered while the application starts, the window's
\* twice as the code does or with one that raises; then jobs that go through
\* the pipeline, fail, are cancelled and are retried.
NextUpdates ==
  \/ \E callback \in { "ok", "raise" } :
       /\ main_pc = "loading"
       /\ Len(job_update_callbacks) < 2
       /\ add_job_update_callback(callback)
  \/ Len(job_update_callbacks) = 2 /\ LoadDone
  \/ AddJob
  \/ \E job_id \in JobIds : CancelJob(job_id)
  \/ \E job_id \in DOMAIN jobs :
       /\ jobs[job_id].status = "failed"
       /\ RetryJob(job_id)
  \/ Scheduler
  \/ \E t \in DOMAIN threads, outcome \in DownloadOutcomes : DownloadWorker(t, outcome)
  \/ \E t \in DOMAIN threads : BurnLoop(t)
  \/ \E t \in DOMAIN threads, status \in { "SUCCESS", "ERROR" } :
       CheckBurnStatus(t, status)

SpecUpdates == Init /\ [][NextUpdates]_vars

\* retry_job step by step beside the scheduler and the download workers;
\* what takes the queue lock waits for retry_job to return.  The retry is
\* asked for as the details dialog allows it, for a job that is FAILED,
\* COMPLETED or CANCELLED.
NextRace ==
  \/ LoadDone
  \/ retrying = 0 /\ AddJob
  \/ \E job_id \in JobIds : retrying = 0 /\ CancelJob(job_id)
  \/ \E job_id \in DOMAIN jobs :
       /\ jobs[job_id].status \in { "failed", "completed", "cancelled" }
       /\ RetryBegin(job_id)
  \/ RetryEnd
  \/ retrying = 0 /\ ProcessGetNext
  \/ ProcessStart
  \/ \E ok \in BOOLEAN : JdfGenerated(ok)
  \/ CheckReadyJobs
  \/ \E t \in DOMAIN threads, outcome \in DownloadOutcomes : DownloadWorker(t, outcome)

SpecRace == Init /\ [][NextRace]_vars

\* The scheduler loop with periodic tasks that are due and raise, and stage
\* handlers that raise.
NextTick ==
  \/ \E status \in { "pending", "downloaded", "failed" } : LoadJob(status, 0)
  \/ LoadDone
  \/ \E due \in SUBSET { Tasks[i] : i \in 1..Len(Tasks) } :
       \E raising \in SUBSET due : RunPending(due, raising)
  \/ sched.pc = "dispatch" /\ ProcessGetNext
  \/ ProcessStart
  \/ \E ok \in BOOLEAN : JdfGenerated(ok)
  \/ CheckReadyJobs
  \/ \E t \in DOMAIN threads, outcome \in DownloadOutcomes : DownloadWorker(t, outcome)

SpecTick == Init /\ [][NextTick]_vars

\* The main thread starting and stopping the background worker.
NextLifecycle ==
  \/ LoadDone
  \/ Start
  \/ Stop
  \/ \E i \in 1..MaxLoops : LoopTest(i)
  \/ \E i \in 1..MaxLoops : LoopWork(i)
  \/ \E i \in 1..MaxLoops : LoopWake(i)

SpecLifecycle == Init /\ [][NextLifecycle]_vars

\* The threads that go through the queue's lock, while the main thread loads
\* the persisted jobs after it has started the background worker.
NextLock ==
  \/ Startup
  \/ Advance
  \/ \E who \in LockThreads : Enter(who)
  \/ LockedAddJob
  \/ LockedGetNext
  \/ LockedCleanup
  \/ \E job_id \in JobIds : LockedCancelJob(job_id)
  \/ \E job_id \in JobIds : LockedRetryJob(job_id)

SpecLock == Init /\ [][NextLock]_vars

\* The dispatch list under the queue's operations and the scheduler, with no
\* worker thread finishing and retry_job called for finished jobs only.
NextDispatch ==
  \/ Startup
  \/ AddJob
  \/ \E job_id \in JobIds : CancelJob(job_id)
  \/ \E job_id \in DOMAIN jobs :
       /\ jobs[job_id].status \in { "completed", "failed", "cancelled" }
       /\ RetryJob(job_id)
  \/ Scheduler

SpecDispatch == Init /\ [][NextDispatch]_vars

\* The scheduler and the workers on the jobs loaded at startup.
NextLoaded ==
  \/ \E status \in StoredStatuses : LoadJob(status, 0)
  \/ LoadDone
  \/ Scheduler
  \/ \E t \in DOMAIN threads, outcome \in DownloadOutcomes : DownloadWorker(t, outcome)
  \/ \E t \in DOMAIN threads : BurnLoop(t)
  \/ \E t \in DOMAIN threads, status \in JDFStatus : CheckBurnStatus(t, status)

\* the scheduler loop keeps ticking, a download returns, and a burn ends: the
\* burner reports the disc or the loop's time-out fails the job
FairnessLoaded ==
  /\ WF_vars(ProcessGetNext)
  /\ WF_vars(ProcessStart)
  /\ WF_vars(\E ok \in BOOLEAN : JdfGenerated(ok))
  /\ WF_vars(CheckReadyJobs)
  /\ \A t \in 1..MaxThreads :
       /\ WF_vars(\E outcome \in DownloadOutcomes : DownloadWorker(t, outcome))
       /\ WF_vars(BurnLoop(t))
       /\ SF_vars(\E status \in { "SUCCESS", "ERROR" } : CheckBurnStatus(t, status))

SpecLoaded == Init /\ [][NextLoaded]_vars /\ FairnessLoaded

\* ======================= claims =======================
Terminal == { "completed", "failed", "cancelled" }

Chain ==
  << "pending", "downloading", "downloaded", "generating_jdf", "jdf_ready",
     "queued_for_burning", "burning", "verifying", "completed" >>

ChainEdge(a, b) == \E i \in 1..(Len(Chain) - 1) : Chain[i] = a /\ Chain[i + 1] = b

\* C2: every change of a job's status follows an edge of the chain, or goes
\* from a non-terminal state to FAILED or CANCELLED, or is the reset of
\* RetryJob to PENDING.
C2_ValidWalk ==
  [][ \A j \in DOMAIN jobs \cap DOMAIN jobs' :
        jobs[j].status # jobs'[j].status =>
          \/ ChainEdge(jobs[j].status, jobs'[j].status)
          \/ /\ jobs[j].status \notin Terminal
             /\ jobs'[j].status \in { "failed", "cancelled" }
          \/ RetryJob(j) ]_vars

\* C3: once a job is CANCELLED its status stays CANCELLED until RetryJob is
\* called on it.
C3_CancelledSticks ==
  [][ \A j \in DOMAIN jobs \cap DOMAIN jobs' :
        jobs[j].status = "cancelled" /\ jobs'[j].status # "cancelled" =>
          RetryJob(j) ]_vars

\* C4: CancelJob on an id that is absent, or whose job is COMPLETED, FAILED
\* or CANCELLED, returns false, leaves the job table and the dispatch list
\* as they are, notifies nobody and requests no download abort.
C4_CancelTerminalNoOp ==
  \A job_id \in JobIds :
    (job_id \notin DOMAIN jobs \/ jobs[job_id].status \in Terminal) =>
      LET r == cancel_job(job_id) IN
        /\ r.ret = FALSE
        /\ r.jobs = jobs
        /\ r.job_queue = job_queue
        /\ r.notified = << >>
        /\ r.api = << >>
        /\ r.cancel_download = FALSE

\* a job cancelled at an earlier instant, and an id the table does not hold
C4_Witness ==
  /\ main_pc = "running"
  /\ \E job_id \in DOMAIN jobs :
       /\ jobs[job_id].status = "cancelled"
       /\ jobs[job_id].updated_at < now
  /\ \E job_id \in JobIds : job_id \notin DOMAIN jobs

\* C5: CancelJob on a job in a non-terminal state returns true; the job is
\* then CANCELLED, its id no longer occurs in the dispatch list, the
\* subscribers were notified, and cancel_download was requested exactly when
\* the job was DOWNLOADING.
C5_CancelActive ==
  \A job_id \in DOMAIN jobs :
    jobs[job_id].status \notin Terminal =>
      LET r == cancel_job(job_id) IN
        /\ r.ret = TRUE
        /\ r.jobs[job_id].status = "cancelled"
        /\ ~InSeq(r.job_queue, job_id)
        /\ r.notified = << job_id >>
        /\ r.cancel_download = (jobs[job_id].status = "downloading")

\* C6: RetryJob on a FAILED job returns true and leaves it PENDING with the
\* error message and both paths cleared and progress 0, its id last in the
\* dispatch list, and offered by GetNextJob only after every PENDING job
\* queued before the retry.
C6_RetryFailed ==
  \A job_id \in DOMAIN jobs :
    jobs[job_id].status = "failed" =>
      LET r == retry_job(job_id)
          q == r.job_queue
      IN
        /\ r.ret = TRUE
        /\ r.jobs[job_id].status = "pending"
        /\ r.jobs[job_id].error_message = NULL
        /\ r.jobs[job_id].iso_path = NULL
        /\ r.jobs[job_id].jdf_path = NULL
        /\ r.jobs[job_id].progress = 0
        /\ q[Len(q)] = job_id
        /\ \A i \in 1..Len(q), k \in 1..Len(job_queue) :
             ( /\ q[i] = job_id
               /\ job_queue[k] # job_id
               /\ job_queue[k] \in DOMAIN jobs
               /\ jobs[job_queue[k]].status = "pending" ) => k < i

\* C7: RetryJob on a job that is not terminal returns false and changes
\* neither the job table nor the dispatch list; it returns true only for a
\* failed or completed job.
C7_RetryOnlyTerminal ==
  \A job_id \in DOMAIN jobs :
    LET r == retry_job(job_id) IN
      /\ jobs[job_id].status \notin Terminal =>
           r.ret = FALSE /\ r.jobs = jobs /\ r.job_queue = job_queue
      /\ r.ret = TRUE => jobs[job_id].status \in Terminal

\* C8: AddJob returns an id the job table does not hold; afterwards the
\* table holds exactly one more job, PENDING with progress 0, its id last in
\* the dispatch list; the jobs that existed and the order of the ids that
\* were queued are unchanged, and the subscribers were notified of the new
\* job.
C8_AddJob ==
  next_id < MaxJobs =>
    LET job_id == next_id + 1
        r == add_job(job_id)
    IN
      /\ r.ret = job_id
      /\ job_id \notin DOMAIN jobs
      /\ DOMAIN r.jobs = DOMAIN jobs \cup { job_id }
      /\ r.jobs[job_id].status = "pending"
      /\ r.jobs[job_id].progress = 0
      /\ \A i \in DOMAIN jobs : r.jobs[i] = jobs[i]
      /\ Len(r.job_queue) = Len(job_queue) + 1
      /\ r.job_queue[Len(r.job_queue)] = job_id
      /\ SubSeq(r.job_queue, 1, Len(job_queue)) = job_queue
      /\ r.notified = << job_id >>

\* the newest job is PENDING at the tail of a dispatch list that holds other
\* entries, and another job can still be added
C8_Witness ==
  /\ next_id < MaxJobs
  /\ Len(job_queue) >= 2
  /\ \E job_id \in DOMAIN jobs :
       /\ jobs[job_id] = NewBurnJob(now)
       /\ job_queue[Len(job_queue)] = job_id
       /\ job_id = next_id

CleanupAges == { 0, 1, cleanup_max_age_days }

C10_CleanupExact ==
  \A max_age_days \in CleanupAges :
    LET kept == cleanup_completed_jobs(max_age_days)
        cutoff == now - max_age_days * DayMinutes
    IN
      /\ DOMAIN kept \subseteq DOMAIN jobs
      /\ \A job_id \in DOMAIN jobs :
           /\ job_id \in DOMAIN kept <=>
                ~ ( /\ jobs[job_id].status \in { "completed", "failed" }
                    /\ jobs[job_id].updated_at < cutoff )
           /\ job_id \in DOMAIN kept => kept[job_id] = jobs[job_id]

\* the cleanup has removed a job and kept a COMPLETED or FAILED job that was
\* updated exactly seven days ago
C10_Witness ==
  /\ Cardinality(DOMAIN jobs) < next_id
  /\ \E job_id \in DOMAIN jobs :
       /\ jobs[job_id].status \in { "completed", "failed" }
       /\ jobs[job_id].updated_at = now - cleanup_max_age_days * DayMinutes

\* C11: a subscriber callback that raises does not stop delivery: whatever
\* the list of subscribers, a notification calls every one of them, those
\* registered after a raising one included, and no exception leaves the
\* notification.
C11_SubscriberIsolation ==
  LET r == _notify_job_update(job_update_callbacks) IN
    /\ r.escaped = FALSE
    /\ \A k \in 1..Len(job_update_callbacks) :
         \E n \in 1..Len(r.received) : r.received[n] = k
    /\ delivered.escaped = FALSE

\* a notification went to a list where an "ok" subscriber follows a raising
\* one
C11_Witness ==
  /\ \E i, k \in 1..Len(job_update_callbacks) :
       /\ i < k
       /\ job_update_callbacks[i] = "raise"
       /\ job_update_callbacks[k] = "ok"
  /\ Len(delivered.received) = Len(job_update_callbacks)

\* the stages of a job whose every stage succeeds
Pipeline ==
  << "pending", "downloading", "downloaded", "generating_jdf", "jdf_ready",
     "queued_for_burning", "burning", "completed" >>

PipelineEdge(a, b) ==
  \E i \in 1..(Len(Pipeline) - 1) : Pipeline[i] = a /\ Pipeline[i + 1] = b

\* C12: when every stage succeeds and nobody cancels or retries, a job that
\* was added goes through DOWNLOADING, DOWNLOADED, GENERATING_JDF, JDF_READY,
\* QUEUED_FOR_BURNING and BURNING in that order and eventually is COMPLETED
\* with progress 100.
C12_PipelineCompletes ==
  /\ \A job_id \in JobIds :
       (job_id \in DOMAIN jobs /\ jobs[job_id].status = "pending")
         ~> ( /\ job_id \in DOMAIN jobs
              /\ jobs[job_id].status = "completed"
              /\ jobs[job_id].progress = 100 )
  /\ [][ \A job_id \in DOMAIN jobs \cap DOMAIN jobs' :
           jobs[job_id].status # jobs'[job_id].status =>
             PipelineEdge(jobs[job_id].status, jobs'[job_id].status) ]_vars

\* both jobs went through the pipeline, one after the other
C12_Witness ==
  /\ Cardinality(DOMAIN jobs) = MaxJobs
  /\ \A job_id \in DOMAIN jobs :
       jobs[job_id].status = "completed" /\ jobs[job_id].progress = 100

C14_MarkerPriority ==
  \A job_id \in JobIds :
    LET files == markers[job_id]
        status == get_status(files)
    IN
      /\ "ERR" \in files => status = "ERROR"
      /\ ("ERR" \notin files /\ "DON" \in files) => status = "SUCCESS"
      /\ ({ "ERR", "DON" } \cap files = { } /\ "INP" \in files) =>
           status = "PROCESSING"
      /\ ({ "ERR", "DON", "INP" } \cap files = { } /\ "JDF" \in files) =>
           status = "WAITING"
      /\ files = { } => status = "NOT_FOUND"

\* a poll failed a job whose stem has both the DON and the ERR file
C14_Witness ==
  \E job_id \in DOMAIN jobs :
    /\ { "DON", "ERR" } \subseteq markers[job_id]
    /\ jobs[job_id].status = "failed"
    /\ jobs[job_id].error_message = "Burning failed"

\* C16: a poll of a BURNING job acts on the status it reads: SUCCESS gives
\* COMPLETED with progress 100, ERROR gives FAILED with the device-error
\* message, PROCESSING leaves the job BURNING with progress 50, WAITING and
\* NOT_FOUND leave the job as it is.
C16_PollActs ==
  \A t \in DOMAIN threads :
    ( /\ threads[t].kind = "burn"
      /\ threads[t].pc = "check"
      /\ threads[t].job \in DOMAIN jobs
      /\ jobs[threads[t].job].status = "burning" ) =>
      LET job == jobs[threads[t].job]
          status == get_status(markers[threads[t].job])
          r == _check_burn_status(job, threads[t].job, status)
      IN
        /\ status = "SUCCESS" =>
             r.job.status = "completed" /\ r.job.progress = 100
        /\ status = "ERROR" =>
             r.job.status = "failed" /\ r.job.error_message = "Burning failed"
        /\ status = "PROCESSING" =>
             r.job.status = "burning" /\ r.job.progress = 50
        /\ status \in { "WAITING", "NOT_FOUND" } => r.job = job

\* a poll read the INP file of a BURNING job, and the next poll is about to
\* read the DON file beside it
C16_Witness ==
  \E t \in DOMAIN threads :
    /\ threads[t].kind = "burn"
    /\ threads[t].pc = "check"
    /\ threads[t].job \in DOMAIN jobs
    /\ jobs[threads[t].job].status = "burning"
    /\ jobs[threads[t].job].progress = 50
    /\ markers[threads[t].job] = { "JDF", "INP", "DON" }

\* the last instant of the clock
LastInstant == CHOOSE t \in Instants : \A u \in Instants : u <= t

\* C17: when a job is still BURNING after burner_timeout minutes, the next
\* iteration of its burn loop fails it with the timeout message, which is
\* not the device-error message, whatever files the burner left; and a job
\* does not stay BURNING forever.
C17_BurnTimeout ==
  /\ [] ( \A t \in DOMAIN threads :
            ( /\ threads[t].kind = "burn"
              /\ threads[t].pc = "loop"
              /\ threads[t].job \in DOMAIN jobs
              /\ jobs[threads[t].job].status = "burning"
              /\ now > jobs[threads[t].job].updated_at + burner_timeout ) =>
              LET r == _burn_loop(jobs[threads[t].job], threads[t].job,
                                  threads[t].max_time)
              IN /\ r.job.status = "failed"
                 /\ r.job.error_message = "Burning timed out"
                 /\ r.job.error_message # "Burning failed"
                 /\ r.pc = "none" )
  /\ \A job_id \in JobIds :
       ( /\ job_id \in DOMAIN jobs
         /\ jobs[job_id].status = "burning"
         /\ now + burner_timeout < LastInstant )
         ~> (job_id \in DOMAIN jobs /\ jobs[job_id].status # "burning")

\* a job timed out although the burner had left its DON file
C17_Witness ==
  \E job_id \in DOMAIN jobs :
    /\ jobs[job_id].status = "failed"
    /\ jobs[job_id].error_message = "Burning timed out"
    /\ "DON" \in markers[job_id]

C18_OneJobPerIso ==
  \A a, b \in DOMAIN jobs \cap DOMAIN iso_ids :
    a # b => iso_ids[a] # iso_ids[b]

\* C19: the polling task returns true exactly when it added at least one
\* job to the queue, a job whose persistence write failed included.
C19_PollReturn ==
  \A p \in PollThreads :
    polls[p].pc = "done" => (polls[p].ret = TRUE <=> polls[p].jobs_added > 0)

\* C20: whatever the sequence of start and stop calls, at most one
\* scheduler loop is at work (run_pending, get_next_job,
\* start_job_processing, the ready scan) at any time.
C20_OneSchedulerLoop ==
  Cardinality({ i \in 1..Len(worker_loops) : worker_loops[i] = "work" }) <= 1

\* C21: start on a running worker creates no loop and changes nothing, stop
\* on a stopped worker changes nothing, and start twice or stop twice leaves
\* what start once or stop once leaves.
C21_StartStopIdempotent ==
  LET here == [ running |-> running, worker_loops |-> worker_loops,
                schedule_jobs |-> schedule_jobs ]
      started == start(running, worker_loops, schedule_jobs)
      stopped == stop(running, worker_loops, schedule_jobs)
  IN
    /\ running => started = here
    /\ ~running => stopped = here
    /\ start(started.running, started.worker_loops, started.schedule_jobs)
         = started
    /\ stop(stopped.running, stopped.worker_loops, stopped.schedule_jobs)
         = stopped

\* the worker was stopped, started again and is running its second loop
C21_Witness ==
  /\ running
  /\ Len(worker_loops) = 2
  /\ worker_loops[2] = "work"

\* C22: an exception in a periodic task or in the dispatch of a tick never
\* ends the scheduler loop and never keeps the other steps of the tick from
\* running: every due task is called whichever of them raise, none lets its
\* exception out, and the tick goes on from the tasks to the dispatch, to the
\* ready scan and to the next tick.
C22_TickSurvivesExceptions ==
  /\ [](/\ sched.pc # "ended"
        /\ \A due \in SUBSET { Tasks[i] : i \in 1..Len(Tasks) } :
             \A raising \in SUBSET due :
               /\ ~run_pending(due, raising).escaped
               /\ run_pending(due, raising).ran = due)
  /\ [][sched' # sched =>
          /\ sched.pc = "tick" => sched'.pc = "dispatch"
          /\ sched.pc = "dispatch" => sched'.pc \in { "start", "ready" }
          /\ sched.pc = "start" => sched'.pc \in { "jdf", "ready" }
          /\ sched.pc = "jdf" => sched'.pc = sched.after
          /\ sched.pc = "ready" => sched'.pc \in { "jdf", "tick" }]_vars

\* every periodic task raised in this tick, the dispatch failed a job, and
\* the loop is at its ready scan
C22_Witness ==
  /\ sched.pc = "ready"
  /\ Cardinality(tick) = Len(Tasks)
  /\ \E job_id \in DOMAIN jobs :
       /\ jobs[job_id].status = "failed"
       /\ jobs[job_id].error_message \notin { NULL, "Download failed" }

ReadyStatuses == { "downloaded", "jdf_ready", "queued_for_burning" }

\* C23: the ready scan of a tick starts at most one job, a job in DOWNLOADED,
\* JDF_READY or QUEUED_FOR_BURNING, and only while the active jobs are fewer
\* than the limit; with spare capacity and a ready job it starts exactly one.
C23_ReadyScanStartsOne ==
  /\ [](/\ _check_ready_jobs # 0 =>
             /\ _check_ready_jobs \in DOMAIN jobs
             /\ jobs[_check_ready_jobs].status \in ReadyStatuses
             /\ active_jobs < max_concurrent_jobs
        /\ ( /\ active_jobs < max_concurrent_jobs
             /\ \E job_id \in DOMAIN jobs : jobs[job_id].status \in ReadyStatuses )
           => _check_ready_jobs # 0)
  /\ [][sched.pc = "ready" /\ sched' # sched =>
          { job_id \in DOMAIN jobs : jobs'[job_id] # jobs[job_id] }
            = { _check_ready_jobs } \ { 0 }]_vars

\* the scan is about to run with spare capacity and two ready jobs
C23_Witness ==
  /\ sched.pc = "ready"
  /\ active_jobs < max_concurrent_jobs
  /\ Cardinality({ job_id \in DOMAIN jobs :
                     jobs[job_id].status \in ReadyStatuses }) = 2

\* C24: only the entry into an active state is limited: the scheduler
\* advances a job in DOWNLOADED or JDF_READY even while the active jobs are
\* as many as the limit or more; for a job that left the dispatch list it is
\* the ready scan that starts a job.
C24_IntermediateAlwaysAdvances ==
  ( /\ sched.pc = "ready"
    /\ \E job_id \in DOMAIN jobs :
         /\ jobs[job_id].status \in { "downloaded", "jdf_ready" }
         /\ ~InSeq(job_queue, job_id) )
  => /\ _check_ready_jobs # 0
     /\ jobs[_check_ready_jobs].status \in ReadyStatuses

\* C25: after retry_job returned true none of the job's earlier files is
\* left: the control file and every INP, DON and ERR file of the stem are
\* gone, so the burn loop of the retried attempt reads no stale file.
C25_RetryRemovesArtifacts ==
  \A job_id \in DOMAIN jobs :
    retry_job(job_id).ret = TRUE => retry_job(job_id).markers[job_id] = {}

\* C26: retry_count is a ceiling on retries: retry_job returns true only
\* while the job's retry_count is below max_retries, and each retry that
\* returns true adds one to it, so no job is retried more than max_retries
\* times.
C26_RetryCeiling ==
  \A job_id \in DOMAIN jobs :
    retry_job(job_id).ret = TRUE =>
      /\ jobs[job_id].retry_count < max_retries
      /\ retry_job(job_id).jobs[job_id].retry_count
           = increment_retry(jobs[job_id], now).retry_count

\* C27 as stated: a job whose error_message is set has status FAILED; only
\* the transition to FAILED writes the message and cancel_job clears it like
\* every other change of status.
C27_ErrorOnlyWhenFailed ==
  /\ \A job_id \in DOMAIN jobs :
       jobs[job_id].error_message # NULL => jobs[job_id].status = "failed"
  /\ \A job_id \in DOMAIN jobs :
       cancel_job(job_id).ret = TRUE =>
         cancel_job(job_id).jobs[job_id].error_message = NULL

\* C27 amended: a job whose error_message is set has status FAILED or
\* CANCELLED, a cancelled job carrying the message cancel_job wrote; every
\* change of status to another status clears the message, and retry_job
\* leaves none.
C27_ErrorOnlyWhenFailedOrCancelled ==
  /\ [](\A job_id \in DOMAIN jobs :
          /\ jobs[job_id].error_message # NULL
               => jobs[job_id].status \in { "failed", "cancelled" }
          /\ jobs[job_id].status = "cancelled"
               => jobs[job_id].error_message = "Cancelled by user"
          /\ retry_job(job_id).jobs[job_id].error_message = NULL)
  /\ [][\A job_id \in DOMAIN jobs \cap DOMAIN jobs' :
          ( /\ jobs'[job_id].status # jobs[job_id].status
            /\ jobs'[job_id].status \notin { "failed", "cancelled" } )
          => jobs'[job_id].error_message = NULL]_vars

\* a job cancelled after its download carries the message of cancel_job,
\* and a failed job was retried and lost its message
C27_Witness ==
  \E a, b \in DOMAIN jobs :
    /\ jobs[a].status = "cancelled"
    /\ jobs[a].error_message = "Cancelled by user"
    /\ jobs[a].iso_path # NULL
    /\ jobs[b].status = "pending"
    /\ InSeq(job_queue, b)
    /\ jobs[b].updated_at = now

\* C28: in every reachable state, however retry_job interleaves with a
\* stage handler that fails, a FAILED job has an error message.
C28_FailedHasMessage ==
  \A job_id \in DOMAIN jobs :
    jobs[job_id].status = "failed" => jobs[job_id].error_message # NULL

\* C29: the notification of an entry into COMPLETED or FAILED is shown at
\* most once: it is shown only for a COMPLETED or FAILED job whose
\* notification_sent is unset, showing it sets notification_sent, every
\* change of status resets it and nothing resets it while the status stays.
C29_NotifiedOncePerEntry ==
  /\ [](\A job_id \in DOMAIN jobs : \A show_notifications \in BOOLEAN :
          LET r == on_job_updated_from_gui(jobs[job_id], show_notifications) IN
            /\ r.shown =>
                 /\ jobs[job_id].status \in { "completed", "failed" }
                 /\ ~jobs[job_id].notification_sent
                 /\ r.job.notification_sent
            /\ ~r.shown => r.job = jobs[job_id])
  /\ [][\A job_id \in DOMAIN jobs \cap DOMAIN jobs' :
          /\ jobs'[job_id].status # jobs[job_id].status
               => ~jobs'[job_id].notification_sent
          /\ ( jobs[job_id].notification_sent /\ ~jobs'[job_id].notification_sent )
               => jobs'[job_id].status # jobs[job_id].status]_vars

\* one job was retried and carries no flag, and the other job's completion
\* has been shown
C29_Witness ==
  \E a, b \in DOMAIN jobs :
    /\ jobs[a].status = "pending"
    /\ InSeq(job_queue, a)
    /\ ~jobs[a].notification_sent
    /\ jobs[b].status = "completed"
    /\ jobs[b].notification_sent

\* C30: every change of status made by add_job, a stage handler (its failure
\* included), the burn loop, cancel_job or retry_job comes with a
\* notification of that job within the same step, and a notification calls
\* every registered subscriber.
C30_StatusChangeNotifies ==
  /\ [](/\ InSeq(add_job(next_id).notified, next_id)
        /\ \A k \in 1..Len(job_update_callbacks) :
             InSeq(_notify_job_update(job_update_callbacks).received, k)
        /\ \A job_id \in DOMAIN jobs :
             LET job == jobs[job_id] IN
               /\ cancel_job(job_id).jobs[job_id].status # job.status
                    => InSeq(cancel_job(job_id).notified, job_id)
               /\ retry_job(job_id).jobs[job_id].status # job.status
                    => InSeq(retry_job(job_id).notified, job_id)
               /\ \A thread_ok \in BOOLEAN :
                    LET r == start_job_processing(job, job_id, thread_ok) IN
                      r.job.status # job.status => InSeq(r.notified, job_id)
               /\ \A ok \in BOOLEAN :
                    LET r == _start_jdf_generation(job, job_id, ok) IN
                      r.job.status # job.status => InSeq(r.notified, job_id)
               /\ \A outcome \in DownloadOutcomes :
                    LET r == _download_worker(job, job_id, outcome) IN
                      r.job.status # job.status => InSeq(r.notified, job_id)
               /\ \A max_time \in { now - 1, now } :
                    LET r == _burn_loop(job, job_id, max_time) IN
                      r.job.status # job.status => InSeq(r.notified, job_id)
               /\ \A status \in JDFStatus :
                    LET r == _check_burn_status(job, job_id, status) IN
                      r.job.status # job.status => InSeq(r.notified, job_id))
  /\ [][( /\ main_pc = "running"
          /\ \/ DOMAIN jobs' # DOMAIN jobs
             \/ \E job_id \in DOMAIN jobs : jobs'[job_id].status # jobs[job_id].status )
        => delivered' = _notify_job_update(job_update_callbacks)]_vars

\* a raising subscriber came first, both subscribers were called, and a job
\* failed in a stage handler while another was cancelled
C30_Witness ==
  /\ job_update_callbacks = << "raise", "ok" >>
  /\ delivered.received = << 1, 2 >>
  /\ \E a, b \in DOMAIN jobs :
       /\ jobs[a].status = "failed"
       /\ jobs[b].status = "cancelled"

\* C31: a fetch that ends in a declared-size mismatch, a checksum mismatch
\* or an image larger than 4.5 GiB leaves the job FAILED and no downloaded
\* file on the disk.
C31_IntegrityFailureRemovesFile ==
  \A job_id \in DOMAIN jobs :
    jobs[job_id].status = "downloading" =>
      \A fault \in DownloadFaults, file_size \in FileSizes :
        LET r == fetch(jobs[job_id], job_id, fault, file_size) IN
          ( \/ fault \in { "size_mismatch", "checksum_mismatch" }
            \/ fault = "none" /\ detect_disc_type(file_size) = "raise" )
          => r.job.status = "failed" /\ ~r.file

\* C32: while a thread is inside a critical section of the queue's lock, no
\* step of another thread adds an entry to or removes one from the job table
\* or the dispatch list: every such mutation of add_job, get_next_job,
\* cancel_job, retry_job, cleanup_completed_jobs and of the startup loading
\* is made by the thread that holds the lock.
C32_MutationsUnderLock ==
  [][( lock # "free" /\ lock' = lock )
     => /\ DOMAIN jobs' = DOMAIN jobs
        /\ job_keys' = job_keys
        /\ job_queue' = job_queue]_vars

\* C33: on every day of the month, and whether or not the clean-up of the
\* persisted store succeeds, a run of the hourly clean-up task leaves in the
\* job table exactly what cleanup_completed_jobs(7 days) leaves.
C33_CleanupAlwaysApplied ==
  \A day \in DaysOfMonth, sql_error \in BOOLEAN :
    cleanup_old_jobs_on(day, sql_error).jobs
      = cleanup_completed_jobs(cleanup_max_age_days)

\* C34: no job id occurs more than once in the dispatch list, after any
\* sequence of add_job, retry_job, cancel_job, get_next_job and the loading
\* of the persisted jobs.
C34_DispatchListDistinct ==
  \A i, k \in 1..Len(job_queue) : job_queue[i] = job_queue[k] => i = k

\* C35: at any time at most one download worker and at most one
\* burn-monitoring loop is running for a given job, whatever the dispatches,
\* cancellations and retries before.
C35_OneWorkerPerJob ==
  \A job_id \in DOMAIN jobs, kind \in { "download", "burn" } :
    Cardinality({ t \in DOMAIN threads :
                    threads[t].kind = kind /\ threads[t].job = job_id }) <= 1

\* C36: whenever the scheduler is between ticks, every job whose status is
\* PENDING has its id in the dispatch list.
C36_PendingIsListed ==
  sched.pc = "tick" =>
    \A job_id \in DOMAIN jobs :
      jobs[job_id].status = "pending" => InSeq(job_queue, job_id)

\* a retried job waits behind a younger one; both are PENDING and listed
C36_Witness ==
  /\ sched.pc = "tick"
  /\ job_queue = << 2, 1 >>
  /\ \A job_id \in { 1, 2 } :
       job_id \in DOMAIN jobs /\ jobs[job_id].status = "pending"

C38_RestartKeepsSchedule ==
  running => \A i \in 1..Len(Tasks) : Tasks[i] \in schedule_jobs

\* C39: an operation sends one report to the API, carrying the new status,
\* when it takes a job into COMPLETED or FAILED from another status, and no
\* report otherwise: none for CANCELLED, none for the reset of retry_job and
\* none for an update that keeps the status.
C39_ReportsMatchFinalTransitions ==
  \A job_id \in DOMAIN jobs :
    LET job == jobs[job_id]
        Reports(after) ==
          IF after.status # job.status /\ after.status \in { "completed", "failed" }
          THEN << after.status >> ELSE << >>
        Matches(r) == r.api = Reports(r.job)
    IN
      /\ LET r == cancel_job(job_id) IN r.api = Reports(r.jobs[job_id])
      /\ update_status_to_api(job, "pending", FALSE)
           = Reports(retry_job(job_id).jobs[job_id])
      /\ \A thread_ok \in BOOLEAN :
           Matches(start_job_processing(job, job_id, thread_ok))
      /\ \A ok \in BOOLEAN : Matches(_start_jdf_generation(job, job_id, ok))
      /\ \A outcome \in DownloadOutcomes :
           Matches(_download_worker(job, job_id, outcome))
      /\ \A max_time \in Instants : Matches(_burn_loop(job, job_id, max_time))
      /\ \A status \in JDFStatus : Matches(_check_burn_status(job, job_id, status))

\* a disc was burned and reported COMPLETED, and a worker of an earlier
\* attempt of a job that FAILED is about to see the burner's error again
C39_Witness ==
  \E a, b \in DOMAIN jobs :
    /\ jobs[a].status = "completed"
    /\ jobs[b].status = "failed"
    /\ \E t \in DOMAIN threads :
         /\ threads[t].kind = "burn"
         /\ threads[t].job = b
         /\ threads[t].pc = "check"

\* C40: for every job status and every number of active jobs,
\* _can_process_job is true exactly when the number of jobs in DOWNLOADING,
\* BURNING or VERIFYING is below max_concurrent_jobs or the job's own status
\* is none of DOWNLOADING, BURNING and VERIFYING.
C40_GateMatchesSpecification ==
  LET active == Cardinality({ job_id \in DOMAIN jobs :
                   jobs[job_id].status \in
                     { "downloading", "burning", "verifying" } })
  IN \A status \in JobStatus :
       _can_process_job([ NewBurnJob(now) EXCEPT !.status = status ])
         <=> \/ active < max_concurrent_jobs
             \/ status \notin { "downloading", "burning", "verifying" }

\* the limit is reached and passed: two jobs are active at once, so the gate
\* answers by the status of the job alone
C40_Witness ==
  /\ active_jobs > max_concurrent_jobs
  /\ \E job_id \in DOMAIN jobs :
       jobs[job_id].status = "downloading" /\ ~_can_process_job(jobs[job_id])
====
